---- MODULE Spec2Model ----
(***************************************************************************)
(* A model of the rendezvous server (src/main.rs): the identity key file   *)
(* lifecycle, TLS parameter validation, swarm and listener start-up, the   *)
(* event loop, and the transport upgrade pipeline of a connection.         *)
(***************************************************************************)
EXTENDS Naturals, Sequences, FiniteSets, TLC

(***************************************************************************)
(* Bounds of the model.                                                    *)
(***************************************************************************)
\* Length of an ed25519 secret key in bytes, scaled down from 32.
KeyLen == 2
\* Longest address list carried by a registration.
MaxAddrs == 2

Byte == {0, 1}

\* Sequences over S of length 0..n.
SeqUpTo(S, n) == UNION {[1..k -> S] : k \in 0..n}

None == "None"

(***************************************************************************)
(* File system.  A file is a record; an absent file has no bytes.          *)
(***************************************************************************)
NoFile == [exists |-> FALSE, readable |-> FALSE, bytes |-> <<>>]
File(b) == [exists |-> TRUE, readable |-> TRUE, bytes |-> b]
Unreadable(b) == [exists |-> TRUE, readable |-> FALSE, bytes |-> b]

\* ed25519::SecretKey::generate(): any KeyLen bytes.
SecretKeys == [1..KeyLen -> Byte]

\* What may lie at --secret-file before the run: nothing, an empty file, a
\* file one byte short or one byte long, or a file of the right length.
ExistingBytes ==
    {<<>>} \cup [1..(KeyLen - 1) -> {1}] \cup SecretKeys \cup [1..(KeyLen + 1) -> {0}]
InitialSecretFiles ==
    {NoFile} \cup {File(b) : b \in ExistingBytes} \cup {Unreadable(b) : b \in {<<>>}}

\* State of the parent directory of --secret-file.
ParentStates == {"exists", "absent", "uncreatable"}

\* Contents of the files named by --tls-private-key / --tls-certificate.
TlsFileStates == {"absent", "garbage", "pem"}

(***************************************************************************)
(* Command line (struct Cli).                                              *)
(***************************************************************************)
Cli ==
    [generate_secret : BOOLEAN,
     ping : BOOLEAN,
     listen_websocket : BOOLEAN,
     tls_private_key : BOOLEAN,
     tls_certificate : BOOLEAN]

VARIABLES
    cli,         \* the parsed command line
    secretFile,  \* the file at --secret-file
    secretFile0, \* that file as it was when the process started
    parentDir,   \* the parent directory of --secret-file
    tlsFiles,    \* the files at the two TLS paths
    reads,       \* the paths this process has read
    pc,          \* position of main
    secret_key,  \* main's secret_key / the key being written
    tls_config,  \* main's tls_config
    swarm,       \* the swarm built by create_swarm
    exit,        \* how the process ended, if it did
    cur,         \* the event returned by select_next_some
    emitted,     \* log entries written by the latest step
    runs,        \* how many times the program has been started
    generated,   \* the key of the latest write_secret_key_to_file that returned Ok
    conns,       \* the connections of the swarm and their upgrades
    probe,       \* the ping handler of each connection
    other        \* another process of this program on the same --secret-file

vars ==
    <<cli, secretFile, secretFile0, parentDir, tlsFiles, reads, pc, secret_key,
      tls_config, swarm, exit, cur, emitted, runs, generated, conns, probe, other>>

Running == [status |-> "running", context |-> None, cause |-> None, at |-> None]
\* main returns Err: anyhow error with an optional context message.
Err(context, cause) ==
    [status |-> "error", context |-> context, cause |-> cause, at |-> None]
\* A panic (unwrap / expect on a failure) unwinds main.
Panic(cause) == [status |-> "panic", context |-> None, cause |-> cause, at |-> None]
\* The process is ended by a signal.
Signal == [status |-> "signal", context |-> None, cause |-> None, at |-> None]

\* The exit code of the process for a final `exit` value.
ExitCode(e) ==
    CASE e.status = "error" -> 1
      [] e.status = "panic" -> 101
      [] e.status = "signal" -> 143
      [] OTHER -> 0


(***************************************************************************)
(* Identity.                                                               *)
(***************************************************************************)
NoKey == <<>>
\* identity::Keypair::Ed25519(secret_key.into()).public()
PublicKey(sk) == [ed25519_public_of |-> sk]
\* PublicKey::into_peer_id()
PeerIdOf(pub) == [peer_id_of |-> pub]

\* The noise handshake payload of a node: its identity public key and the
\* signature of its static DH key, made with an identity secret key.
Payload(identity_key, signer) == [identity_key |-> identity_key, signed_by |-> signer]
\* line 302: into_authentic(identity) signs with the node's own identity.
AuthenticPayload(identity) == Payload(PublicKey(identity), identity)
NoPayload == Payload(PublicKey(NoKey), NoKey)

\* ed25519::SecretKey::from_bytes: exactly KeyLen bytes, or a decoding error.
FromBytes(bytes) ==
    IF Len(bytes) = KeyLen
    THEN [ok |-> TRUE, key |-> bytes, cause |-> None]
    ELSE [ok |-> FALSE, key |-> NoKey, cause |-> "DecodingError"]

\* Mutant of AsRef: the bytes behind a one-byte length header.
AsRefFramed(sk) == <<1>> \o sk

\* SecretKey::as_ref(): the raw bytes of the key, nothing else.
AsRef(sk) == sk

\* fs::read(path)
FsRead(file) ==
    IF ~file.exists THEN [ok |-> FALSE, bytes |-> <<>>, cause |-> "NotFound"]
    ELSE IF ~file.readable
    THEN [ok |-> FALSE, bytes |-> <<>>, cause |-> "PermissionDenied"]
    ELSE [ok |-> TRUE, bytes |-> file.bytes, cause |-> None]

NoSecretFileAt == "No secret file at secret_file"
CouldNotCreateDirectory == "Could not create directory for secret file: parent"
CouldNotGenerate == "Could not generate secret file at secret_file"

\* load_secret_key_from_file as a function of the file at the path.
LoadResult(file) ==
    LET r == FsRead(file) IN
    IF ~r.ok THEN [ok |-> FALSE, key |-> NoKey, err |-> Err(NoSecretFileAt, r.cause)]
    ELSE LET k == FromBytes(r.bytes) IN
         IF k.ok THEN [ok |-> TRUE, key |-> k.key, err |-> Running]
         ELSE [ok |-> FALSE, key |-> NoKey, err |-> Err(None, k.cause)]

\* The process ends with `e`, at the step main was at.
Exit(e) ==
    /\ pc' = "exited"
    /\ exit' = [e EXCEPT !.at = pc]

(***************************************************************************)
(* main, lines 77-85: generate or load the secret key.                     *)
(***************************************************************************)
\* line 79: ed25519::SecretKey::generate(), then enter write_secret_key_to_file.
GenerateSecretKey ==
    /\ pc = "start"
    /\ cli.generate_secret
    /\ \E k \in SecretKeys : secret_key' = k
    /\ pc' = "create_dir"
    /\ emitted' = <<>>
    /\ UNCHANGED <<cli, secretFile, secretFile0, parentDir, tlsFiles, reads,
                   tls_config, swarm, exit, cur, runs, generated,
                   conns, probe, other>>

\* write_secret_key_to_file, lines 224-235: DirBuilder recursive create.
CreateParentDir ==
    /\ pc = "create_dir"
    /\ emitted' = <<>>
    /\ IF parentDir = "uncreatable"
       THEN /\ Exit(Err(CouldNotCreateDirectory, "io"))
            /\ UNCHANGED parentDir
       ELSE /\ parentDir' = "exists"
            /\ pc' = "open"
            /\ UNCHANGED exit
    /\ UNCHANGED <<cli, secretFile, secretFile0, tlsFiles, reads, secret_key,
                   tls_config, swarm, cur, runs, generated,
                   conns, probe, other>>

\* Mutant of OpenCreateNew: create(true) in place of create_new(true), which
\* opens a file that exists.
OpenCreate ==
    /\ pc = "open"
    /\ emitted' = <<>>
    /\ \/ /\ secretFile' = IF secretFile.exists THEN secretFile ELSE File(<<>>)
          /\ pc' = "write"
          /\ UNCHANGED exit
       \/ /\ ~secretFile.exists
          /\ Exit(Err(CouldNotGenerate, "PermissionDenied"))
          /\ UNCHANGED secretFile
    /\ UNCHANGED <<cli, secretFile0, parentDir, tlsFiles, reads, secret_key,
                   tls_config, swarm, cur, runs, generated,
                   conns, probe, other>>

\* OpenOptions::new().write(true).create_new(true).open(path): the file is
\* created empty, atomically, only if nothing exists at the path.
OpenCreateNew ==
    /\ pc = "open"
    /\ emitted' = <<>>
    /\ \/ /\ secretFile.exists
          /\ Exit(Err(CouldNotGenerate, "AlreadyExists"))
          /\ UNCHANGED secretFile
       \/ /\ ~secretFile.exists
          /\ \/ /\ secretFile' = File(<<>>)
                /\ pc' = "write"
                /\ UNCHANGED exit
             \/ /\ Exit(Err(CouldNotGenerate, "PermissionDenied"))
                /\ UNCHANGED secretFile
    /\ UNCHANGED <<cli, secretFile0, parentDir, tlsFiles, reads, secret_key,
                   tls_config, swarm, cur, runs, generated,
                   conns, probe, other>>

\* A write through a handle opened at offset 0 without truncation puts its
\* bytes over the first bytes of the file and leaves the rest.
WriteAt0(old, bytes) == bytes \o SubSeq(old, Len(bytes) + 1, Len(old))

\* line 243: file.write_all(secret_key.as_ref()); an I/O error may leave a
\* prefix of the bytes in the file.
WriteAll ==
    /\ pc = "write"
    /\ emitted' = <<>>
    /\ \/ /\ secretFile' = [secretFile EXCEPT !.bytes = WriteAt0(@, AsRef(secret_key))]
          /\ generated' = secret_key
          /\ pc' = "tls"
          /\ UNCHANGED exit
       \/ \E n \in 0..(KeyLen - 1) :
            /\ secretFile' = [secretFile EXCEPT
                   !.bytes = WriteAt0(@, SubSeq(AsRef(secret_key), 1, n))]
            /\ Exit(Err(None, "io"))
            /\ UNCHANGED generated
    /\ UNCHANGED <<cli, secretFile0, parentDir, tlsFiles, reads, secret_key,
                   tls_config, swarm, cur, runs, conns, probe, other>>

\* line 84: load_secret_key_from_file(&cli.secret_file)
LoadSecretKeyFromFile ==
    /\ pc = "start"
    /\ ~cli.generate_secret
    /\ emitted' = <<>>
    /\ reads' = reads \cup {"secret_file"}
    /\ LET r == LoadResult(secretFile) IN
       IF r.ok
       THEN /\ secret_key' = r.key
            /\ pc' = "tls"
            /\ UNCHANGED exit
       ELSE /\ Exit(r.err)
            /\ UNCHANGED secret_key
    /\ UNCHANGED <<cli, secretFile, secretFile0, parentDir, tlsFiles,
                   tls_config, swarm, cur, runs, generated,
                   conns, probe, other>>


(***************************************************************************)
(* tls_config_from_params, lines 164-185.                                  *)
(***************************************************************************)
BothHaveToBeProvided == "Server private key and certificate both have to be provided"
SslParamsWarning ==
    "The provided SSL parameters won't have any affect, because you did not activate websockets"

NoTls == "NoTls"
TlsConfig == "TlsConfig"

\* Mutant of TlsConfigFromParams: the websocket flag is looked at before the
\* two paths are matched.
TlsConfigWebsocketFirst(private_key, certificate, websocket, files) ==
    IF ~websocket \/ (~private_key /\ ~certificate)
    THEN [err |-> Running, config |-> NoTls, reads |-> {},
          warn |-> IF private_key \/ certificate
                   THEN <<[level |-> "warn", msg |-> SslParamsWarning]>> ELSE <<>>]
    ELSE IF ~(private_key /\ certificate)
    THEN [err |-> Err(BothHaveToBeProvided, None), config |-> NoTls, reads |-> {},
          warn |-> <<>>]
    ELSE IF files.pk = "absent"
    THEN [err |-> Err(None, "io"), config |-> NoTls, reads |-> {"tls_private_key"},
          warn |-> <<>>]
    ELSE IF files.cert = "absent"
    THEN [err |-> Err(None, "io"), config |-> NoTls,
          reads |-> {"tls_private_key", "tls_certificate"}, warn |-> <<>>]
    ELSE IF files.pk # "pem" \/ files.cert # "pem"
    THEN [err |-> Err(None, "tls"), config |-> NoTls,
          reads |-> {"tls_private_key", "tls_certificate"}, warn |-> <<>>]
    ELSE [err |-> Running, config |-> TlsConfig,
          reads |-> {"tls_private_key", "tls_certificate"}, warn |-> <<>>]

\* Mutant of TlsConfigFromParams: the two files are read before the websocket
\* flag is looked at.
TlsConfigReadFirst(private_key, certificate, websocket, files) ==
    IF ~private_key /\ ~certificate
    THEN [err |-> Running, config |-> NoTls, reads |-> {}, warn |-> <<>>]
    ELSE IF ~(private_key /\ certificate)
    THEN [err |-> Err(BothHaveToBeProvided, None), config |-> NoTls, reads |-> {},
          warn |-> <<>>]
    ELSE IF files.pk = "absent"
    THEN [err |-> Err(None, "io"), config |-> NoTls, reads |-> {"tls_private_key"},
          warn |-> <<>>]
    ELSE IF files.cert = "absent"
    THEN [err |-> Err(None, "io"), config |-> NoTls,
          reads |-> {"tls_private_key", "tls_certificate"}, warn |-> <<>>]
    ELSE IF ~websocket
    THEN [err |-> Running, config |-> NoTls,
          reads |-> {"tls_private_key", "tls_certificate"},
          warn |-> <<[level |-> "warn", msg |-> SslParamsWarning]>>]
    ELSE IF files.pk # "pem" \/ files.cert # "pem"
    THEN [err |-> Err(None, "tls"), config |-> NoTls,
          reads |-> {"tls_private_key", "tls_certificate"}, warn |-> <<>>]
    ELSE [err |-> Running, config |-> TlsConfig,
          reads |-> {"tls_private_key", "tls_certificate"}, warn |-> <<>>]

\* The result of tls_config_from_params for the two optional paths, the
\* websocket flag and the files at the paths: the returned value or error,
\* the paths it read and the warnings it logged.
TlsConfigFromParams(private_key, certificate, websocket, files) ==
    IF ~private_key /\ ~certificate
    THEN [err |-> Running, config |-> NoTls, reads |-> {}, warn |-> <<>>]
    ELSE IF ~(private_key /\ certificate)
    THEN [err |-> Err(BothHaveToBeProvided, None), config |-> NoTls, reads |-> {},
          warn |-> <<>>]
    ELSE IF ~websocket
    THEN [err |-> Running, config |-> NoTls, reads |-> {},
          warn |-> <<[level |-> "warn", msg |-> SslParamsWarning]>>]
    ELSE IF files.pk = "absent"
    THEN [err |-> Err(None, "io"), config |-> NoTls, reads |-> {"tls_private_key"},
          warn |-> <<>>]
    ELSE IF files.cert = "absent"
    THEN [err |-> Err(None, "io"), config |-> NoTls,
          reads |-> {"tls_private_key", "tls_certificate"}, warn |-> <<>>]
    ELSE IF files.pk # "pem" \/ files.cert # "pem"
    THEN [err |-> Err(None, "tls"), config |-> NoTls,
          reads |-> {"tls_private_key", "tls_certificate"}, warn |-> <<>>]
    ELSE [err |-> Running, config |-> TlsConfig,
          reads |-> {"tls_private_key", "tls_certificate"}, warn |-> <<>>]

\* Mutant of LoadTlsConfig: on an error a secret file this run has made is
\* removed again.
LoadTlsConfigCleansUp ==
    /\ pc = "tls"
    /\ LET r == TlsConfigFromParams(cli.tls_private_key, cli.tls_certificate,
                                    cli.listen_websocket, tlsFiles) IN
       /\ reads' = reads \cup r.reads
       /\ emitted' = r.warn
       /\ IF r.err.status = "running"
          THEN /\ tls_config' = r.config
               /\ pc' = "create_swarm"
               /\ UNCHANGED <<exit, secretFile>>
          ELSE /\ Exit(r.err)
               /\ secretFile' = IF cli.generate_secret THEN NoFile ELSE secretFile
               /\ UNCHANGED tls_config
    /\ UNCHANGED <<cli, secretFile0, parentDir, tlsFiles, secret_key,
                   swarm, cur, runs, generated, conns, probe, other>>

\* main, lines 88-93.
LoadTlsConfig ==
    /\ pc = "tls"
    /\ LET r == TlsConfigFromParams(cli.tls_private_key, cli.tls_certificate,
                                    cli.listen_websocket, tlsFiles) IN
       /\ reads' = reads \cup r.reads
       /\ emitted' = r.warn
       /\ IF r.err.status = "running"
          THEN /\ tls_config' = r.config
               /\ pc' = "create_swarm"
               /\ UNCHANGED exit
          ELSE /\ Exit(r.err)
               /\ UNCHANGED tls_config
    /\ UNCHANGED <<cli, secretFile, secretFile0, parentDir, tlsFiles, secret_key,
                   swarm, cur, runs, generated,
                   conns, probe, other>>

(***************************************************************************)
(* create_swarm, create_transport, authenticate_and_multiplex,             *)
(* Behaviour::new.                                                         *)
(***************************************************************************)
\* line 311: Duration::from_secs(20)
UpgradeTimeoutSecs == 20
\* line 350: Duration::from_secs(86_400)
PingIntervalSecs == 86400

\* line 305: SelectUpgrade::new(YamuxConfig::default(), MplexConfig::new()):
\* the multiplexers offered, preferred first.
MultiplexUpgrade == <<"yamux", "mplex">>

\* lines 307-313: the upgrade stages put on a base transport, in order.
AuthenticateAndMultiplex(base, identity) ==
    [base |-> base,
     upgrade |-> <<"version_v1", "noise_xx", "multiplex">>,
     noise_identity |-> AuthenticPayload(identity),
     muxers |-> MultiplexUpgrade,
     timeout |-> UpgradeTimeoutSecs]

\* Mutant of CreateTransport: set_tls_config is never called.
CreateTransportWithoutTls(identity, websocket, tls) ==
    IF websocket
    THEN AuthenticateAndMultiplex(
             [alternatives |-> <<"tcp", "ws">>, ws_tls |-> FALSE], identity)
    ELSE AuthenticateAndMultiplex(
             [alternatives |-> <<"tcp">>, ws_tls |-> FALSE], identity)

\* Mutant of CreateTransport: the websocket layer is there whatever
\* --listen-websocket says.
CreateTransportAlwaysWebsocket(identity, websocket, tls) ==
    AuthenticateAndMultiplex(
        [alternatives |-> <<"tcp", "ws">>, ws_tls |-> (tls = TlsConfig)], identity)

\* lines 273-289: tcp with dns, or tcp with dns or websocket over it.
CreateTransport(identity, websocket, tls) ==
    IF websocket
    THEN AuthenticateAndMultiplex(
             [alternatives |-> <<"tcp", "ws">>, ws_tls |-> (tls = TlsConfig)], identity)
    ELSE AuthenticateAndMultiplex(
             [alternatives |-> <<"tcp">>, ws_tls |-> FALSE], identity)

\* Mutant of BehaviourNew: the ping behaviour is there whatever --ping says.
BehaviourNewAlwaysPing(enable_ping) ==
    [rendezvous |-> TRUE,
     ping |-> [enabled |-> TRUE, keep_alive |-> FALSE, interval |-> PingIntervalSecs]]

\* lines 345-360
BehaviourNew(enable_ping) ==
    [rendezvous |-> TRUE,
     ping |-> IF enable_ping
              THEN [enabled |-> TRUE, keep_alive |-> FALSE, interval |-> PingIntervalSecs]
              ELSE [enabled |-> FALSE, keep_alive |-> FALSE, interval |-> 0]]

NoTransport == AuthenticateAndMultiplex([alternatives |-> <<>>, ws_tls |-> FALSE], NoKey)

NoSwarm ==
    [built |-> FALSE, local_peer_id |-> PeerIdOf(PublicKey(NoKey)),
     transport |-> NoTransport, behaviour |-> BehaviourNew(FALSE), listeners |-> <<>>]

\* lines 254-265
CreateSwarm(identity, ping, websocket, tls) ==
    [built |-> TRUE,
     local_peer_id |-> PeerIdOf(PublicKey(identity)),
     transport |-> CreateTransport(identity, websocket, tls),
     behaviour |-> BehaviourNew(ping),
     listeners |-> <<>>]

\* line 104
PeerIdLog(s) ==
    [level |-> "info", msg |-> "Rendezvous server peer id", peer_id |-> s.local_peer_id]

\* main, lines 95-104.  TokioDnsConfig::system(..).unwrap() and
\* authenticate_and_multiplex(..).unwrap() panic when the system resolver
\* configuration cannot be read or the noise static key cannot be signed.
BuildSwarm ==
    /\ pc = "create_swarm"
    /\ \/ /\ swarm' = CreateSwarm(secret_key, cli.ping, cli.listen_websocket, tls_config)
          /\ emitted' = <<PeerIdLog(swarm')>>
          /\ pc' = "listen_tcp"
          /\ UNCHANGED exit
       \/ \E cause \in {"dns_system_config", "noise_into_authentic"} :
            /\ Exit(Panic(cause))
            /\ emitted' = <<>>
            /\ UNCHANGED swarm
    /\ UNCHANGED <<cli, secretFile, secretFile0, parentDir, tlsFiles, reads,
                   secret_key, tls_config, cur, runs, generated,
                   conns, probe, other>>

(***************************************************************************)
(* main, lines 106-122: the listeners.                                     *)
(***************************************************************************)
FailedListener == "Failed to initialize listener"
FailedWebsocketListener == "Failed to initialize websocket listener"

TcpAddress == "/ip4/0.0.0.0/tcp/listen_tcp"
\* line 95
WsOrWss(tls) == IF tls = TlsConfig THEN "wss" ELSE "ws"
WebsocketAddress(tls) == "/ip4/0.0.0.0/tcp/listen_websocket/" \o WsOrWss(tls)

\* Mutant of ListenTcp: a failed bind is ignored and start-up goes on.
ListenTcpIgnoresError ==
    /\ pc = "listen_tcp"
    /\ emitted' = <<>>
    /\ \/ swarm' = [swarm EXCEPT !.listeners = Append(@, TcpAddress)]
       \/ UNCHANGED swarm
    /\ pc' = IF cli.listen_websocket THEN "listen_ws" ELSE "loop"
    /\ UNCHANGED <<cli, secretFile, secretFile0, parentDir, tlsFiles, reads,
                   secret_key, tls_config, cur, exit, runs, generated,
                   conns, probe, other>>

\* Mutant of ListenTcp: a failed bind is reported with the context of the
\* websocket listener.
ListenTcpWebsocketContext ==
    /\ pc = "listen_tcp"
    /\ emitted' = <<>>
    /\ \/ /\ swarm' = [swarm EXCEPT !.listeners = Append(@, TcpAddress)]
          /\ pc' = IF cli.listen_websocket THEN "listen_ws" ELSE "loop"
          /\ UNCHANGED exit
       \/ /\ Exit(Err(FailedWebsocketListener, "AddrInUse"))
          /\ UNCHANGED swarm
    /\ UNCHANGED <<cli, secretFile, secretFile0, parentDir, tlsFiles, reads,
                   secret_key, tls_config, cur, runs, generated,
                   conns, probe, other>>

\* lines 106-112: binding succeeds, or fails (the port is in use).
ListenTcp ==
    /\ pc = "listen_tcp"
    /\ emitted' = <<>>
    /\ \/ /\ swarm' = [swarm EXCEPT !.listeners = Append(@, TcpAddress)]
          /\ pc' = IF cli.listen_websocket THEN "listen_ws" ELSE "loop"
          /\ UNCHANGED exit
       \/ /\ Exit(Err(FailedListener, "AddrInUse"))
          /\ UNCHANGED swarm
    /\ UNCHANGED <<cli, secretFile, secretFile0, parentDir, tlsFiles, reads,
                   secret_key, tls_config, cur, runs, generated,
                   conns, probe, other>>

\* lines 114-122
ListenWebsocket ==
    /\ pc = "listen_ws"
    /\ emitted' = <<>>
    /\ \/ /\ swarm' = [swarm EXCEPT !.listeners = Append(@, WebsocketAddress(tls_config))]
          /\ pc' = "loop"
          /\ UNCHANGED exit
       \/ /\ Exit(Err(FailedWebsocketListener, "AddrInUse"))
          /\ UNCHANGED swarm
    /\ UNCHANGED <<cli, secretFile, secretFile0, parentDir, tlsFiles, reads,
                   secret_key, tls_config, cur, runs, generated,
                   conns, probe, other>>

(***************************************************************************)
(* The event loop, lines 124-161.                                          *)
(***************************************************************************)
\* Multiaddresses as sequences of components; text as sequences of characters.
Multiaddrs == {<<"ip4", "1.2.3.4", "tcp", "9000">>, <<"dns4", "host">>}

RECURSIVE MultiaddrToString(_)
\* Multiaddr::to_string: every component preceded by a slash.
MultiaddrToString(addr) ==
    IF addr = <<>> THEN <<>>
    ELSE <<"/", Head(addr)>> \o MultiaddrToString(Tail(addr))

RECURSIVE JoinTrailing(_, _)
\* Mutant of Join: the separator after every item.
JoinTrailing(items, sep) ==
    IF items = <<>> THEN <<>>
    ELSE Head(items) \o sep \o JoinTrailing(Tail(items), sep)

RECURSIVE Join(_, _)
\* [String]::join(sep): the separator between consecutive items only.
Join(items, sep) ==
    IF items = <<>> THEN <<>>
    ELSE IF Len(items) = 1 THEN Head(items)
    ELSE Head(items) \o sep \o Join(Tail(items), sep)

\* impl fmt::Display for Addresses, lines 366-376
AddressesDisplay(addresses) ==
    Join([i \in 1..Len(addresses) |-> MultiaddrToString(addresses[i])], <<",">>)

\* {:?} of a slice of Multiaddr: quoted items in brackets, separated by ", ".
AddressesDebug(addresses) ==
    <<"[">>
    \o Join([i \in 1..Len(addresses) |-> <<"\"">> \o MultiaddrToString(addresses[i]) \o <<"\"">>],
            <<",", " ">>)
    \o <<"]">>

AddressLists == SeqUpTo(Multiaddrs, MaxAddrs)

Registration(addresses) ==
    [namespace |-> "booking", peer |-> "peer1", addresses |-> addresses, ttl |-> 60]

NoEvent == [kind |-> "NoEvent", registration |-> Registration(<<>>), address |-> ""]
Ev(kind) == [NoEvent EXCEPT !.kind = kind]

\* Events of the rendezvous behaviour that carry a registration.
RegistrationEvents ==
    {[Ev(k) EXCEPT !.registration = Registration(a)] :
        k \in {"PeerRegistered", "RegistrationExpired"}, a \in AddressLists}

\* Every other event of the rendezvous behaviour and of the swarm itself.
PlainEvents ==
    {Ev(k) : k \in {"PeerNotRegistered", "PeerUnregistered", "DiscoverServed",
                    "DiscoverNotServed", "ConnectionEstablished", "ConnectionClosed",
                    "IncomingConnection", "IncomingConnectionError",
                    "UnreachableAddr", "ExpiredListenAddr", "ListenerClosed",
                    "ListenerError", "Dialing"}}

\* The events select_next_some can return for a swarm: ping events only from
\* an enabled ping behaviour, new listen addresses only of its listeners.
SwarmEvents(s) ==
    RegistrationEvents \cup PlainEvents
    \cup (IF s.behaviour.ping.enabled THEN {Ev("Ping")} ELSE {})
    \cup {[Ev("NewListenAddr") EXCEPT !.address = s.listeners[i]] :
            i \in 1..Len(s.listeners)}

NoFields == [peer |-> "", namespace |-> "", addresses |-> <<>>, ttl |-> 0,
             error |-> "", address |-> ""]
Info(msg, fields) == [level |-> "info", msg |-> msg, fields |-> fields]

\* Mutant of LogFor: connection and listener errors are logged as well.
LogForWithErrors(ev) ==
    LET r == ev.registration IN
    CASE ev.kind = "PeerRegistered" ->
           <<Info("Peer registered",
                  [NoFields EXCEPT !.peer = r.peer, !.namespace = r.namespace,
                                   !.addresses = AddressesDebug(r.addresses),
                                   !.ttl = r.ttl])>>
      [] ev.kind = "PeerNotRegistered" ->
           <<Info("Peer failed to register",
                  [NoFields EXCEPT !.peer = r.peer, !.namespace = r.namespace,
                                   !.error = "error"])>>
      [] ev.kind = "RegistrationExpired" ->
           <<Info("Registration expired",
                  [NoFields EXCEPT !.peer = r.peer, !.namespace = r.namespace,
                                   !.addresses = AddressesDisplay(r.addresses),
                                   !.ttl = r.ttl])>>
      [] ev.kind = "PeerUnregistered" ->
           <<Info("Peer unregistered",
                  [NoFields EXCEPT !.peer = r.peer, !.namespace = r.namespace])>>
      [] ev.kind = "DiscoverServed" ->
           <<Info("Discovery served", [NoFields EXCEPT !.peer = r.peer])>>
      [] ev.kind = "NewListenAddr" ->
           <<Info("New listening address reported",
                  [NoFields EXCEPT !.address = ev.address])>>
      [] ev.kind \in {"IncomingConnectionError", "ListenerError"} ->
           <<Info("Error", [NoFields EXCEPT !.error = ev.kind])>>
      [] OTHER -> <<>>

\* The match of lines 125-160: the log entries written for an event.
LogFor(ev) ==
    LET r == ev.registration IN
    CASE ev.kind = "PeerRegistered" ->
           <<Info("Peer registered",
                  [NoFields EXCEPT !.peer = r.peer, !.namespace = r.namespace,
                                   !.addresses = AddressesDebug(r.addresses),
                                   !.ttl = r.ttl])>>
      [] ev.kind = "PeerNotRegistered" ->
           <<Info("Peer failed to register",
                  [NoFields EXCEPT !.peer = r.peer, !.namespace = r.namespace,
                                   !.error = "error"])>>
      [] ev.kind = "RegistrationExpired" ->
           <<Info("Registration expired",
                  [NoFields EXCEPT !.peer = r.peer, !.namespace = r.namespace,
                                   !.addresses = AddressesDisplay(r.addresses),
                                   !.ttl = r.ttl])>>
      [] ev.kind = "PeerUnregistered" ->
           <<Info("Peer unregistered",
                  [NoFields EXCEPT !.peer = r.peer, !.namespace = r.namespace])>>
      [] ev.kind = "DiscoverServed" ->
           <<Info("Discovery served", [NoFields EXCEPT !.peer = r.peer])>>
      [] ev.kind = "NewListenAddr" ->
           <<Info("New listening address reported",
                  [NoFields EXCEPT !.address = ev.address])>>
      [] OTHER -> <<>>

\* Mutant of Dispatch: a closed listener or a listener error ends main.
DispatchReturnsOnListenerError ==
    /\ pc = "loop"
    /\ \E ev \in SwarmEvents(swarm) :
         /\ cur' = ev
         /\ emitted' = LogFor(ev)
         /\ IF ev.kind \in {"ListenerClosed", "ListenerError"}
            THEN Exit(Err(None, ev.kind))
            ELSE pc' = "loop" /\ UNCHANGED exit
    /\ UNCHANGED <<cli, secretFile, secretFile0, parentDir, tlsFiles, reads,
                   secret_key, tls_config, swarm, runs, generated,
                   conns, probe, other>>

\* One iteration of the loop: await the next event and match it; every arm
\* falls through to the next iteration.
Dispatch ==
    /\ pc = "loop"
    /\ \E ev \in SwarmEvents(swarm) :
         /\ cur' = ev
         /\ emitted' = LogFor(ev)
         /\ pc' = "loop"
    /\ UNCHANGED <<cli, secretFile, secretFile0, parentDir, tlsFiles, reads,
                   secret_key, tls_config, swarm, exit, runs, generated,
                   conns, probe, other>>

(***************************************************************************)
(* The upgrade of a connection by the transport of authenticate_and_       *)
(* multiplex (lines 301-313), between this node and a remote.              *)
(***************************************************************************)
\* Two connection attempts, each driven by a task of its own (line 261).
Conns == {"A", "B"}

\* The identity keys of this node and of a remote instance, and a third key.
LocalKey == [i \in 1..KeyLen |-> 0]
RemoteKey == [i \in 1..KeyLen |-> 1]
OtherKey == [i \in 1..KeyLen |-> IF i = 1 THEN 0 ELSE 1]

NoPeer == PeerIdOf(PublicKey(NoKey))

\* The multiplexers a remote may offer, in its order of preference; a remote
\* instance of this program offers MultiplexUpgrade.
RemoteOffers ==
    {MultiplexUpgrade, <<"mplex", "yamux">>, <<"mplex">>, <<"yamux">>, <<"other">>}

\* What a remote may send: the payload of an instance configured with
\* RemoteKey, or a payload claiming another identity than the one that signed.
RemotePayloads == {AuthenticPayload(RemoteKey), Payload(PublicKey(OtherKey), RemoteKey)}

\* line 303: into_authenticated() accepts a payload only if the signature
\* verifies under the identity key it carries.
Verifies(payload) == payload.identity_key = PublicKey(payload.signed_by)

\* The peer id an accepted payload authenticates.
AuthenticatedPeer(payload) == PeerIdOf(payload.identity_key)

\* multistream-select over the offers of SelectUpgrade (line 305), which
\* lists its first upgrade before its second.  The dialer proposes its
\* protocols in order; the listener answers each proposal it does not support
\* with "na" and the first it supports with "ok".
Supported(offers) == {offers[i] : i \in 1..Len(offers)}

RECURSIVE ListenerReplies(_, _)
ListenerReplies(proposals, listener) ==
    IF proposals = <<>> THEN <<>>
    ELSE IF Head(proposals) \in Supported(listener) THEN <<"ok">>
    ELSE <<"na">> \o ListenerReplies(Tail(proposals), listener)

\* The protocol the listener ends with: the one it answered "ok" to.
ListenerChoice(proposals, listener) ==
    LET r == ListenerReplies(proposals, listener) IN
    IF r # <<>> /\ r[Len(r)] = "ok" THEN proposals[Len(r)] ELSE "none"

\* The protocol the dialer ends with: its proposal that got the "ok".
DialerChoice(dialer, replies) ==
    IF \E i \in 1..Len(replies) : replies[i] = "ok"
    THEN dialer[CHOOSE i \in 1..Len(replies) : replies[i] = "ok"]
    ELSE "none"

\* Mutant of LocalMuxer: a fixed choice, the first multiplexer of the list.
LocalMuxerFixed(role, local, remote) == local[1]

\* The multiplexer this node ends with, facing a remote with `remote` offers.
LocalMuxer(role, local, remote) ==
    IF role = "outbound"
    THEN DialerChoice(local, ListenerReplies(local, remote))
    ELSE ListenerChoice(remote, local)

\* The multiplexer the remote ends with.
RemoteMuxer(role, local, remote) ==
    IF role = "outbound"
    THEN ListenerChoice(local, remote)
    ELSE DialerChoice(remote, ListenerReplies(remote, local))

Idle ==
    [stage |-> "idle", role |-> "none", elapsed |-> 0, peer |-> NoPeer,
     muxer |-> "none", remote_payload |-> NoPayload, remote_offers |-> <<>>,
     remote_peer |-> NoPeer, remote_muxer |-> "none", error |-> "none",
     reported |-> FALSE, via |-> "none", speaks |-> "none"]

\* An upgrade (or the dial before it) is under way, under its timer.
InFlight(c) ==
    conns[c].stage \in {"dialing", "websocket", "version", "noise", "multiplex"}
Terminal(c) == conns[c].stage \in {"done", "failed"}

UpgradeFrame ==
    UNCHANGED <<cli, secretFile, secretFile0, parentDir, tlsFiles, reads, pc,
                secret_key, tls_config, swarm, exit, cur, emitted, runs, generated,
                probe, other>>

\* The upgrade future of c ends with an error; its timer is dropped with it.
Fail(c, error) ==
    conns' = [conns EXCEPT ![c].stage = "failed", ![c].error = error,
                           ![c].elapsed = 0]

\* What a remote may speak on a socket it has opened: the upgrade protocols
\* at once, or the websocket handshake first.
Protocols == {"raw", "ws"}

\* lines 283, 106-122: or_transport gives an address to the first of the two
\* layers that supports it, the raw one for /tcp/<port> and the websocket one
\* for /tcp/<port>/ws or /wss.
Layer(address) == IF address = TcpAddress THEN "tcp" ELSE "ws"

\* What the remote of a connection of a layer has to speak.
Spoken(layer) == IF layer = "ws" THEN "ws" ELSE "raw"

\* The listener of an address yields an incoming connection, whose remote
\* speaks some protocol: the connection belongs to the layer of the
\* listener, its upgrade starts, and the timer of TransportTimeout with it.
AcceptOn(c, address, protocol) ==
    /\ pc = "loop"
    /\ conns[c].stage = "idle"
    /\ conns' = [conns EXCEPT
           ![c].stage = IF Layer(address) = "ws" THEN "websocket" ELSE "version",
           ![c].role = "inbound",
           ![c].via = Layer(address),
           ![c].speaks = protocol]
    /\ UpgradeFrame

Accept(c) ==
    \E i \in DOMAIN swarm.listeners, protocol \in Protocols :
        AcceptOn(c, swarm.listeners[i], protocol)

\* The websocket layer of an incoming connection: the handshake of the
\* websocket protocol, which a remote that speaks something else fails.
WebsocketHandshake(c) ==
    /\ conns[c].stage = "websocket"
    /\ \/ /\ conns[c].speaks = Spoken("ws")
          /\ conns' = [conns EXCEPT ![c].stage = "version"]
       \/ Fail(c, "websocket")
    /\ UpgradeFrame

\* The swarm dials an address of one of the layers of the transport, where a
\* listener of that layer answers: the timer covers the dial future from its
\* creation.
Dial(c) ==
    /\ pc = "loop"
    /\ conns[c].stage = "idle"
    /\ \E i \in DOMAIN swarm.transport.base.alternatives :
         LET layer == swarm.transport.base.alternatives[i] IN
         conns' = [conns EXCEPT ![c].stage = "dialing", ![c].role = "outbound",
                                ![c].via = layer, ![c].speaks = Spoken(layer)]
    /\ UpgradeFrame

\* Mutant of RawConnected: the timer starts anew when the raw connection of
\* a dial is established.
RawConnectedRestartsTimer(c) ==
    /\ conns[c].stage = "dialing"
    /\ \/ conns' = [conns EXCEPT ![c].stage = "version", ![c].elapsed = 0]
       \/ Fail(c, "connect")
    /\ UpgradeFrame

\* The connection of a dial is established by its layer, or the attempt
\* fails.
RawConnected(c) ==
    /\ conns[c].stage = "dialing"
    /\ \/ conns' = [conns EXCEPT ![c].stage = "version"]
       \/ Fail(c, "connect")
    /\ UpgradeFrame

\* Mutant of VersionNegotiation: the multiplexer is negotiated next, without
\* a handshake.
VersionNegotiationThenMultiplex(c) ==
    /\ conns[c].stage = "version"
    /\ \/ conns' = [conns EXCEPT ![c].stage = "multiplex"]
       \/ Fail(c, "version")
    /\ UpgradeFrame

\* line 308: upgrade(Version::V1): both sides agree on the version, or the
\* remote answers with something else or closes.
VersionNegotiation(c) ==
    /\ conns[c].stage = "version"
    /\ \/ /\ conns[c].speaks = Spoken(conns[c].via)
          /\ conns' = [conns EXCEPT ![c].stage = "noise"]
       \/ Fail(c, "version")
    /\ UpgradeFrame

\* Mutant of NoiseHandshake: a payload that does not verify ends main.
NoiseHandshakeFatal(c) ==
    /\ conns[c].stage = "noise"
    /\ \E p \in RemotePayloads :
         IF Verifies(p)
         THEN /\ conns' = [conns EXCEPT
                     ![c].stage = "multiplex",
                     ![c].remote_payload = p,
                     ![c].peer = AuthenticatedPeer(p),
                     ![c].remote_peer =
                         AuthenticatedPeer(swarm.transport.noise_identity)]
              /\ UNCHANGED <<pc, exit>>
         ELSE /\ conns' = [conns EXCEPT
                     ![c].stage = "failed", ![c].error = "noise",
                     ![c].elapsed = 0, ![c].remote_payload = p]
              /\ Exit(Err(None, "noise"))
    /\ UNCHANGED <<cli, secretFile, secretFile0, parentDir, tlsFiles, reads,
                   secret_key, tls_config, swarm, cur, emitted, runs, generated,
                   probe, other>>

\* line 309: authenticate(auth_upgrade): the XX handshake.  Each side sends
\* its payload and verifies the other's; the remote may also close.
NoiseHandshake(c) ==
    /\ conns[c].stage = "noise"
    /\ \/ \E p \in RemotePayloads :
            IF Verifies(p)
            THEN conns' = [conns EXCEPT
                     ![c].stage = "multiplex",
                     ![c].remote_payload = p,
                     ![c].peer = AuthenticatedPeer(p),
                     ![c].remote_peer =
                         AuthenticatedPeer(swarm.transport.noise_identity)]
            ELSE conns' = [conns EXCEPT
                     ![c].stage = "failed", ![c].error = "noise",
                     ![c].elapsed = 0, ![c].remote_payload = p]
       \/ Fail(c, "closed")
    /\ UpgradeFrame

\* line 310: multiplex(multiplex_upgrade): protocol negotiation over the
\* offers of both sides.
MultiplexNegotiation(c) ==
    /\ conns[c].stage = "multiplex"
    /\ \E offers \in RemoteOffers :
         LET mine == LocalMuxer(conns[c].role, swarm.transport.muxers, offers)
             theirs == RemoteMuxer(conns[c].role, swarm.transport.muxers, offers)
         IN IF mine = "none"
            THEN conns' = [conns EXCEPT
                     ![c].stage = "failed", ![c].error = "multiplex",
                     ![c].elapsed = 0, ![c].remote_offers = offers]
            ELSE conns' = [conns EXCEPT
                     ![c].stage = "done", ![c].muxer = mine, ![c].elapsed = 0,
                     ![c].remote_muxer = theirs, ![c].remote_offers = offers]
    /\ UpgradeFrame

\* Mutant of Timeout: one timer for the transport, whose firing ends every
\* upgrade under way.
TimeoutAbortsAll(c) ==
    /\ InFlight(c)
    /\ conns[c].elapsed >= swarm.transport.timeout
    /\ conns' = [d \in Conns |->
                    IF InFlight(d)
                    THEN [conns[d] EXCEPT !.stage = "failed", !.error = "timeout",
                                          !.elapsed = 0]
                    ELSE conns[d]]
    /\ UpgradeFrame

\* line 311: timeout(20 s): the timer of this connection's future fires.
Timeout(c) ==
    /\ InFlight(c)
    /\ conns[c].elapsed >= swarm.transport.timeout
    /\ Fail(c, "timeout")
    /\ UpgradeFrame

\* A second passes for every connection whose timer runs; no timer is
\* overrun.
Tick ==
    /\ \E c \in Conns : InFlight(c)
    /\ \A c \in Conns : InFlight(c) => conns[c].elapsed < swarm.transport.timeout
    /\ conns' = [c \in Conns |->
                    IF InFlight(c) THEN [conns[c] EXCEPT !.elapsed = @ + 1] ELSE conns[c]]
    /\ UpgradeFrame

\* The swarm event with which the outcome of a connection reaches the loop.
ConnectionEvent(conn) ==
    IF conn.stage = "done" THEN Ev("ConnectionEstablished")
    ELSE IF conn.role = "inbound" THEN Ev("IncomingConnectionError")
    ELSE Ev("UnreachableAddr")

\* One iteration of the loop (lines 124-161) on the event of a connection:
\* an established connection stays, a failed attempt leaves the pool.
DispatchConnectionEvent(c) ==
    /\ pc = "loop"
    /\ Terminal(c)
    /\ ~conns[c].reported
    /\ cur' = ConnectionEvent(conns[c])
    /\ emitted' = LogFor(ConnectionEvent(conns[c]))
    /\ conns' = IF conns[c].stage = "done"
                THEN [conns EXCEPT ![c].reported = TRUE]
                ELSE [conns EXCEPT ![c] = Idle]
    /\ UNCHANGED <<cli, secretFile, secretFile0, parentDir, tlsFiles, reads, pc,
                   secret_key, tls_config, swarm, exit, runs, generated, probe, other>>

(***************************************************************************)
(* The ping behaviour, lines 336-361.  Behaviour::new wraps it in a Toggle:  *)
(* with --ping every connection gets a ping handler, whose timer is due at  *)
(* once and then every interval, and which answers the pings of the remote; *)
(* without it the Toggle is empty, connections get no ping handler and the  *)
(* ping protocol is not among the protocols the node supports.              *)
(***************************************************************************)
\* Pings counted on one connection.
MaxPings == 2

NoHandler ==
    [created |-> FALSE, timer |-> "none", sent |-> 0, answered |-> 0,
     refused |-> 0, pending |-> FALSE]

\* A connection whose upgrade went well and which the loop has seen.
Established ==
    [Idle EXCEPT !.stage = "done", !.role = "inbound", !.reported = TRUE,
                 !.via = "tcp", !.speaks = "raw",
                 !.remote_payload = AuthenticPayload(RemoteKey),
                 !.peer = PeerIdOf(PublicKey(RemoteKey)),
                 !.remote_peer = PeerIdOf(PublicKey(LocalKey)),
                 !.muxer = "yamux", !.remote_muxer = "yamux",
                 !.remote_offers = <<"yamux", "mplex">>]

PingFrame ==
    UNCHANGED <<cli, secretFile, secretFile0, parentDir, tlsFiles, reads, pc,
                secret_key, tls_config, swarm, exit, runs, generated, conns,
                other>>

\* The swarm asks the behaviour for the handlers of a new connection: the
\* Toggle of lines 345-352 yields a ping handler, or none.
NewHandler(c) ==
    /\ pc = "loop"
    /\ conns[c].stage = "done"
    /\ ~probe[c].created
    /\ probe' = [probe EXCEPT
           ![c].created = TRUE,
           ![c].timer = IF swarm.behaviour.ping.enabled THEN "armed" ELSE "none"]
    /\ UNCHANGED <<cur, emitted>>
    /\ PingFrame

\* The timer of a ping handler is due: a ping goes out.
SendPing(c) ==
    /\ probe[c].timer = "armed"
    /\ probe[c].sent < MaxPings
    /\ probe' = [probe EXCEPT ![c].timer = "awaiting", ![c].sent = @ + 1]
    /\ UNCHANGED <<cur, emitted>>
    /\ PingFrame

\* The pong comes back: the handler reports it and arms its timer with the
\* interval of line 350.
PongReceived(c) ==
    /\ probe[c].timer = "awaiting"
    /\ probe' = [probe EXCEPT ![c].timer = "armed", ![c].pending = TRUE]
    /\ UNCHANGED <<cur, emitted>>
    /\ PingFrame

\* The remote opens a ping stream: a ping handler answers it; without one the
\* protocol is refused.
InboundPing(c) ==
    /\ probe[c].created
    /\ IF probe[c].timer # "none"
       THEN /\ probe[c].answered < MaxPings
            /\ probe' = [probe EXCEPT ![c].answered = @ + 1, ![c].pending = TRUE]
       ELSE /\ probe[c].refused < MaxPings
            /\ probe' = [probe EXCEPT ![c].refused = @ + 1]
    /\ UNCHANGED <<cur, emitted>>
    /\ PingFrame

\* One iteration of the loop (lines 124-161) on the event of a ping handler.
DispatchPingEvent(c) ==
    /\ pc = "loop"
    /\ probe[c].pending
    /\ probe' = [probe EXCEPT ![c].pending = FALSE]
    /\ cur' = Ev("Ping")
    /\ emitted' = LogFor(Ev("Ping"))
    /\ PingFrame

(***************************************************************************)
(* Another process of this program, started with --generate-secret on the  *)
(* same --secret-file: lines 79-80 and write_secret_key_to_file, lines     *)
(* 223-246, step by step on the same file system.                          *)
(***************************************************************************)
\* The other process has not been started.
NoOther == [pc |-> "none", secret_key |-> NoKey, exit |-> Running]

OtherExit(e) ==
    other' = [other EXCEPT !.pc = "exited", !.exit = [e EXCEPT !.at = other.pc]]

OtherFrame ==
    UNCHANGED <<cli, secretFile0, tlsFiles, reads, pc, secret_key, tls_config,
                swarm, exit, cur, emitted, runs, generated, conns, probe>>

\* line 79
OtherGenerateSecretKey ==
    /\ other.pc = "start"
    /\ \E k \in SecretKeys :
         other' = [other EXCEPT !.pc = "create_dir", !.secret_key = k]
    /\ UNCHANGED <<secretFile, parentDir>>
    /\ OtherFrame

\* lines 224-235
OtherCreateParentDir ==
    /\ other.pc = "create_dir"
    /\ IF parentDir = "uncreatable"
       THEN /\ OtherExit(Err(CouldNotCreateDirectory, "io"))
            /\ UNCHANGED parentDir
       ELSE /\ parentDir' = "exists"
            /\ other' = [other EXCEPT !.pc = "open"]
    /\ UNCHANGED secretFile
    /\ OtherFrame

\* Mutant of OtherOpenCreateNew: create(true) in place of create_new(true).
OtherOpenCreate ==
    /\ other.pc = "open"
    /\ \/ /\ secretFile' = IF secretFile.exists THEN secretFile ELSE File(<<>>)
          /\ other' = [other EXCEPT !.pc = "write"]
       \/ /\ ~secretFile.exists
          /\ OtherExit(Err(CouldNotGenerate, "PermissionDenied"))
          /\ UNCHANGED secretFile
    /\ UNCHANGED parentDir
    /\ OtherFrame

\* lines 236-241
OtherOpenCreateNew ==
    /\ other.pc = "open"
    /\ \/ /\ secretFile.exists
          /\ OtherExit(Err(CouldNotGenerate, "AlreadyExists"))
          /\ UNCHANGED secretFile
       \/ /\ ~secretFile.exists
          /\ \/ /\ secretFile' = File(<<>>)
                /\ other' = [other EXCEPT !.pc = "write"]
             \/ /\ OtherExit(Err(CouldNotGenerate, "PermissionDenied"))
                /\ UNCHANGED secretFile
    /\ UNCHANGED parentDir
    /\ OtherFrame

\* line 243
OtherWriteAll ==
    /\ other.pc = "write"
    /\ \/ /\ secretFile' = [secretFile EXCEPT
                 !.bytes = WriteAt0(@, AsRef(other.secret_key))]
          /\ other' = [other EXCEPT !.pc = "done"]
       \/ \E n \in 0..(KeyLen - 1) :
            /\ secretFile' = [secretFile EXCEPT
                   !.bytes = WriteAt0(@, SubSeq(AsRef(other.secret_key), 1, n))]
            /\ OtherExit(Err(None, "io"))
    /\ UNCHANGED parentDir
    /\ OtherFrame

(***************************************************************************)
(* The process as a whole.                                                 *)
(***************************************************************************)
\* Runs of the program on the same file system.
MaxRuns == 2

\* The files at the TLS paths are only looked at when both paths are given.
InitialTlsFiles(c) ==
    IF c.tls_private_key /\ c.tls_certificate
    THEN [pk : TlsFileStates, cert : TlsFileStates]
    ELSE {[pk |-> "absent", cert |-> "absent"]}

Init ==
    /\ cli \in Cli
    /\ secretFile \in InitialSecretFiles
    /\ secretFile0 = secretFile
    /\ parentDir \in IF secretFile.exists THEN {"exists"} ELSE ParentStates
    /\ tlsFiles \in InitialTlsFiles(cli)
    /\ reads = {}
    /\ pc = "start"
    /\ secret_key = NoKey
    /\ tls_config = NoTls
    /\ swarm = NoSwarm
    /\ exit = Running
    /\ cur = NoEvent
    /\ emitted = <<>>
    /\ runs = 1
    /\ generated = NoKey
    /\ conns = [c \in Conns |-> Idle]
    /\ probe = [c \in Conns |-> NoHandler]
    /\ other = NoOther

\* The process is ended from outside (a signal), wherever it is.
Terminate ==
    /\ pc # "exited"
    /\ Exit(Signal)
    /\ emitted' = <<>>
    /\ UNCHANGED <<cli, secretFile, secretFile0, parentDir, tlsFiles, reads,
                   secret_key, tls_config, swarm, cur, runs, generated,
                   conns, probe, other>>

\* The program is started again on the same file system, with or without
\* --generate-secret.
Restart ==
    /\ pc = "exited"
    /\ runs < MaxRuns
    /\ runs' = runs + 1
    /\ \E g \in BOOLEAN : cli' = [cli EXCEPT !.generate_secret = g]
    /\ secretFile0' = secretFile
    /\ reads' = {}
    /\ pc' = "start"
    /\ secret_key' = NoKey
    /\ tls_config' = NoTls
    /\ swarm' = NoSwarm
    /\ exit' = Running
    /\ cur' = NoEvent
    /\ emitted' = <<>>
    /\ UNCHANGED <<secretFile, parentDir, tlsFiles, generated, conns, probe, other>>

Next ==
    \/ GenerateSecretKey
    \/ CreateParentDir
    \/ OpenCreateNew
    \/ WriteAll
    \/ LoadSecretKeyFromFile
    \/ LoadTlsConfig
    \/ BuildSwarm
    \/ ListenTcp
    \/ ListenWebsocket
    \/ Dispatch
    \/ Terminate
    \/ Restart

Spec == Init /\ [][Next]_vars

\* The node in its loop, started without --generate-secret on the key file of
\* LocalKey, with or without a websocket listener.
InitUpgrade ==
    /\ cli \in {c \in Cli : /\ ~c.generate_secret /\ ~c.ping
                            /\ ~c.tls_private_key /\ ~c.tls_certificate}
    /\ secretFile = File(LocalKey)
    /\ secretFile0 = secretFile
    /\ parentDir = "exists"
    /\ tlsFiles = [pk |-> "absent", cert |-> "absent"]
    /\ reads = {"secret_file"}
    /\ pc = "loop"
    /\ secret_key = LocalKey
    /\ tls_config = NoTls
    /\ swarm = [CreateSwarm(secret_key, cli.ping, cli.listen_websocket, tls_config)
                EXCEPT !.listeners =
                    IF cli.listen_websocket
                    THEN <<TcpAddress, WebsocketAddress(tls_config)>>
                    ELSE <<TcpAddress>>]
    /\ exit = Running
    /\ cur = NoEvent
    /\ emitted = <<>>
    /\ runs = 1
    /\ generated = NoKey
    /\ conns = [c \in Conns |-> Idle]
    /\ probe = [c \in Conns |-> NoHandler]
    /\ other = NoOther

NextUpgrade ==
    \/ \E c \in Conns : Accept(c)
    \/ \E c \in Conns : WebsocketHandshake(c)
    \/ \E c \in Conns : Dial(c)
    \/ \E c \in Conns : RawConnected(c)
    \/ \E c \in Conns : VersionNegotiation(c)
    \/ \E c \in Conns : NoiseHandshake(c)
    \/ \E c \in Conns : MultiplexNegotiation(c)
    \/ \E c \in Conns : Timeout(c)
    \/ Tick
    \/ \E c \in Conns : DispatchConnectionEvent(c)

SpecUpgrade == InitUpgrade /\ [][NextUpgrade]_vars

\* The node in its loop with both connections established, started with or
\* without --ping.
InitPing ==
    /\ cli \in {c \in Cli : /\ ~c.generate_secret /\ ~c.listen_websocket
                            /\ ~c.tls_private_key /\ ~c.tls_certificate}
    /\ secretFile = File(LocalKey)
    /\ secretFile0 = secretFile
    /\ parentDir = "exists"
    /\ tlsFiles = [pk |-> "absent", cert |-> "absent"]
    /\ reads = {"secret_file"}
    /\ pc = "loop"
    /\ secret_key = LocalKey
    /\ tls_config = NoTls
    /\ swarm = [CreateSwarm(secret_key, cli.ping, cli.listen_websocket, tls_config)
                EXCEPT !.listeners = <<TcpAddress>>]
    /\ exit = Running
    /\ cur = Ev("ConnectionEstablished")
    /\ emitted = <<>>
    /\ runs = 1
    /\ generated = NoKey
    /\ conns = [c \in Conns |-> Established]
    /\ probe = [c \in Conns |-> NoHandler]
    /\ other = NoOther

NextPing ==
    \/ \E c \in Conns : NewHandler(c)
    \/ \E c \in Conns : SendPing(c)
    \/ \E c \in Conns : PongReceived(c)
    \/ \E c \in Conns : InboundPing(c)
    \/ \E c \in Conns : DispatchPingEvent(c)

SpecPing == InitPing /\ [][NextPing]_vars

\* Two processes started with --generate-secret on a path where no file is.
InitConcurrent ==
    /\ cli = [generate_secret |-> TRUE, ping |-> FALSE, listen_websocket |-> FALSE,
              tls_private_key |-> FALSE, tls_certificate |-> FALSE]
    /\ secretFile = NoFile
    /\ secretFile0 = NoFile
    /\ parentDir \in ParentStates
    /\ tlsFiles = [pk |-> "absent", cert |-> "absent"]
    /\ reads = {}
    /\ pc = "start"
    /\ secret_key = NoKey
    /\ tls_config = NoTls
    /\ swarm = NoSwarm
    /\ exit = Running
    /\ cur = NoEvent
    /\ emitted = <<>>
    /\ runs = 1
    /\ generated = NoKey
    /\ conns = [c \in Conns |-> Idle]
    /\ probe = [c \in Conns |-> NoHandler]
    /\ other = [NoOther EXCEPT !.pc = "start"]

NextConcurrent ==
    \/ GenerateSecretKey
    \/ CreateParentDir
    \/ OpenCreateNew
    \/ WriteAll
    \/ OtherGenerateSecretKey
    \/ OtherCreateParentDir
    \/ OtherOpenCreateNew
    \/ OtherWriteAll

SpecConcurrent == InitConcurrent /\ [][NextConcurrent]_vars

(***************************************************************************)
(* Properties.                                                             *)
(***************************************************************************)
\* main ended by itself: it returned an error or panicked.
Failed == pc = "exited" /\ exit.status \in {"error", "panic"}
FailedAt(step) == Failed /\ exit.at = step

TlsPaths == {"tls_private_key", "tls_certificate"}

\* C1: in a run with --generate-secret that finds a file at the path, the file
\* keeps the bytes it had when the run started, write_secret_key_to_file never
\* gets past opening the file, and when it returns it returns the error of
\* the failed exclusive creation.
C1_ExistingFileNotModified ==
    (cli.generate_secret /\ secretFile0.exists) =>
        /\ secretFile = secretFile0
        /\ pc \in {"start", "create_dir", "open", "exited"}
        /\ Failed => exit = [Err(CouldNotGenerate, "AlreadyExists") EXCEPT !.at = "open"]

\* C1 witness: generating onto a file that holds bytes has failed.
C1_Witness ==
    /\ cli.generate_secret
    /\ secretFile0.exists
    /\ secretFile0.bytes # <<>>
    /\ FailedAt("open")

\* C2: once write_secret_key_to_file has returned Ok for a key, loading from
\* the same path returns exactly the bytes of that key, and every later run
\* without --generate-secret that has its key has that key and, once its
\* swarm is built, the peer id derived from it.
C2_RoundTrip ==
    generated # NoKey =>
        /\ LoadResult(secretFile).ok
        /\ LoadResult(secretFile).key = generated
        /\ (~cli.generate_secret /\ pc \notin {"start", "exited"}) =>
              /\ secret_key = generated
              /\ swarm.built => swarm.local_peer_id = PeerIdOf(PublicKey(generated))

\* C2 witness: a second run, without --generate-secret, runs its loop with the
\* key the first run generated.
C2_Witness ==
    /\ runs = 2
    /\ ~cli.generate_secret
    /\ generated # NoKey
    /\ pc = "loop"
    /\ secret_key = generated

ExactlyOneTlsPath == cli.tls_private_key # cli.tls_certificate
NoTlsPath == ~cli.tls_private_key /\ ~cli.tls_certificate

\* C3: with exactly one of the two TLS paths, whatever the websocket flag,
\* start-up never gets past tls_config_from_params, which fails with the
\* configuration error without reading a file; with neither path it does not
\* fail and yields no TLS configuration.
C3_TlsPathsValidated ==
    /\ ExactlyOneTlsPath =>
          /\ pc \in {"start", "create_dir", "open", "write", "tls", "exited"}
          /\ tls_config = NoTls
          /\ FailedAt("tls") =>
                /\ exit.status = "error"
                /\ exit.context = BothHaveToBeProvided
                /\ reads \cap TlsPaths = {}
    /\ NoTlsPath =>
          /\ ~FailedAt("tls")
          /\ tls_config = NoTls
          /\ reads \cap TlsPaths = {}

\* C3 witness: only the private key path was given, with the websocket
\* listener enabled, and tls_config_from_params has failed.
C3_Witness ==
    /\ cli.tls_private_key
    /\ ~cli.tls_certificate
    /\ cli.listen_websocket
    /\ FailedAt("tls")

BothTlsPathsNoWebsocket ==
    cli.tls_private_key /\ cli.tls_certificate /\ ~cli.listen_websocket

\* C4: with both TLS paths and no websocket listener, tls_config_from_params
\* never fails, yields no TLS configuration and reads neither file, whatever
\* is at the two paths; main goes on to build the swarm, after the warning.
C4_UnusedTlsPathsAccepted ==
    BothTlsPathsNoWebsocket =>
        /\ ~FailedAt("tls")
        /\ tls_config = NoTls
        /\ reads \cap TlsPaths = {}
        /\ pc = "create_swarm" =>
              emitted = <<[level |-> "warn", msg |-> SslParamsWarning]>>
        /\ swarm.built => ~swarm.transport.base.ws_tls

\* C4 witness: both paths name files that do not exist, there is no websocket
\* listener, and main has reached the step after tls_config_from_params.
C4_Witness ==
    /\ BothTlsPathsNoWebsocket
    /\ tlsFiles.pk = "absent"
    /\ tlsFiles.cert = "absent"
    /\ pc = "create_swarm"

\* Is x an element of the sequence s?
InSeq(x, s) == \E i \in 1..Len(s) : s[i] = x

AfterKey == {"tls", "create_swarm", "listen_tcp", "listen_ws", "loop"}
AfterSwarm == {"listen_tcp", "listen_ws", "loop"}
AfterTcp == {"listen_ws", "loop"}

\* The TLS configuration that the command line and the files call for.
ExpectedTls ==
    IF cli.tls_private_key /\ cli.tls_certificate /\ cli.listen_websocket
    THEN TlsConfig ELSE NoTls

\* C7: main is past a start-up step only when every step before it has
\* succeeded, in the order key, TLS configuration, swarm, TCP listener,
\* websocket listener, loop; a run that fails by itself fails at a step before
\* the loop, ends with a non-zero exit code and has dispatched no event.
C7_StartupFailuresAreFatal ==
    /\ pc \in AfterKey => secret_key # NoKey /\ exit = Running
    /\ pc \in AfterSwarm =>
          /\ swarm.built
          /\ tls_config = ExpectedTls
          /\ swarm.transport.base.ws_tls = (tls_config = TlsConfig)
          /\ swarm.transport.noise_identity = AuthenticPayload(secret_key)
    /\ pc \in AfterTcp => InSeq(TcpAddress, swarm.listeners)
    /\ pc = "loop" =>
          (cli.listen_websocket => InSeq(WebsocketAddress(tls_config), swarm.listeners))
    /\ pc \notin AfterSwarm \cup {"exited"} => ~swarm.built
    /\ cur # NoEvent => pc = "loop" \/ (pc = "exited" /\ exit = [Signal EXCEPT !.at = "loop"])
    /\ Failed =>
          /\ ExitCode(exit) # 0
          /\ exit.at \in {"start", "create_dir", "open", "write", "tls", "create_swarm",
                          "listen_tcp", "listen_ws"}
          /\ cur = NoEvent

\* C7 witness: the last start-up step, binding the websocket listener, has
\* failed after every step before it succeeded.
C7_Witness ==
    /\ FailedAt("listen_ws")
    /\ InSeq(TcpAddress, swarm.listeners)
    /\ ExitCode(exit) = 1

\* C8: a run whose TCP listen_on fails ends there with the error of the TCP
\* listener, which is not the error of the websocket listener; it has bound
\* no listener, websocket included, and has dispatched no event.  Start-up is
\* never past the TCP listener without the TCP listener bound.
C8_TcpBindFailureIsFatal ==
    /\ FailedListener # FailedWebsocketListener
    /\ FailedAt("listen_tcp") =>
          /\ exit.status = "error"
          /\ exit.context = FailedListener
          /\ swarm.listeners = <<>>
          /\ cur = NoEvent
    /\ FailedAt("listen_ws") => exit.context = FailedWebsocketListener
    /\ pc \in AfterTcp => InSeq(TcpAddress, swarm.listeners)
    /\ (Failed /\ exit.context = FailedListener) => exit.at = "listen_tcp"

\* C8 witness: with a websocket listener configured, the TCP bind has failed.
C8_Witness ==
    /\ cli.listen_websocket
    /\ FailedAt("listen_tcp")

RECURSIVE SplitOn(_, _)
\* The pieces of text s between the occurrences of character c.
SplitOn(s, c) ==
    IF s = <<>> THEN << <<>> >>
    ELSE LET rest == SplitOn(Tail(s), c) IN
         IF Head(s) = c THEN << <<>> >> \o rest
         ELSE << <<Head(s)>> \o Head(rest) >> \o Tail(rest)

\* The event just matched by the loop.
Matched(kind) == pc = "loop" /\ cur.kind = kind

\* C9: after a registration-expired event the loop has written exactly one
\* entry, with the peer, namespace and TTL of the registration, and the
\* addresses as one text: empty for no address, and otherwise the text that
\* splits at its commas into exactly the addresses, in order.
C9_ExpiredRegistrationLogged ==
    Matched("RegistrationExpired") =>
        /\ Len(emitted) = 1
        /\ LET f == emitted[1].fields
               r == cur.registration
           IN /\ emitted[1].msg = "Registration expired"
              /\ f.peer = r.peer
              /\ f.namespace = r.namespace
              /\ f.ttl = r.ttl
              /\ r.addresses = <<>> => f.addresses = <<>>
              /\ Len(r.addresses) = 1 => f.addresses = MultiaddrToString(r.addresses[1])
              /\ r.addresses # <<>> =>
                    SplitOn(f.addresses, ",") =
                        [i \in 1..Len(r.addresses) |-> MultiaddrToString(r.addresses[i])]

\* C9 witness: a registration with two addresses has expired and was logged.
C9_Witness ==
    /\ Matched("RegistrationExpired")
    /\ Len(cur.registration.addresses) = 2
    /\ cur.registration.addresses[1] # cur.registration.addresses[2]
    /\ Len(emitted) = 1

\* C10: unless the process is ended by a signal, a step taken from the loop
\* ends in the loop, with main still running; and in the loop the next
\* iteration can always be taken.
C10_LoopHasNoTerminalState ==
    /\ [][(pc = "loop" /\ exit'.status # "signal") => (pc' = "loop" /\ exit' = Running)]_vars
    /\ [](pc = "loop" => ENABLED Dispatch)

\* C10 witness: the loop has matched a listener error and is waiting again.
C10_Witness ==
    /\ Matched("ListenerError")
    /\ exit = Running

\* The next step of the upgrade of connection c.
UpgradeStep(c) == VersionNegotiation(c) \/ NoiseHandshake(c) \/ MultiplexNegotiation(c)

\* Connection c ends by its timeout in this step.
TimesOut(c) ==
    InFlight(c) /\ conns'[c].stage = "failed" /\ conns'[c].error = "timeout"

\* C5: the step in which the timeout of one connection fires changes nothing
\* of any other connection and leaves main in its loop; and whatever the
\* other connections do or fail to do, a connection whose upgrade is under
\* way can take its next step and the loop can dispatch the event of a
\* connection that has ended.
C5_TimeoutAbortsOnlyItsConnection ==
    /\ [][\A a \in Conns :
            TimesOut(a) =>
                /\ \A b \in Conns \ {a} : conns'[b] = conns[b]
                /\ pc' = "loop" /\ exit' = Running]_vars
    /\ [](\A b \in Conns :
            /\ conns[b].stage \in {"version", "noise", "multiplex"} => ENABLED UpgradeStep(b)
            /\ (Terminal(b) /\ ~conns[b].reported) => ENABLED DispatchConnectionEvent(b))

\* C5 witness: A was aborted by its timeout, B completed its upgrade, and the
\* loop has dispatched the event of B.
C5_Witness ==
    /\ conns["A"].stage = "failed"
    /\ conns["A"].error = "timeout"
    /\ conns["B"].stage = "done"
    /\ conns["B"].reported
    /\ cur = Ev("ConnectionEstablished")

\* The offers of a remote list the multiplexers in the order of this program.
SameOrder(offers) ==
    offers \in {MultiplexUpgrade, <<MultiplexUpgrade[1]>>, <<MultiplexUpgrade[2]>>}

\* C6: when the upgrade of a connection completes, both sides have the same
\* multiplexer, one that both offer; facing an instance of this program it is
\* the preferred one, and facing a remote that does not offer the preferred
\* one it is the fallback.  This node's peer id for the remote is the one
\* derived from the key the remote signed with, and the remote's peer id for
\* this node is the one derived from this node's secret key.
C6_UpgradeConverges ==
    \A c \in Conns :
        conns[c].stage = "done" =>
            LET k == conns[c] IN
            /\ k.muxer = k.remote_muxer
            /\ k.muxer \in Supported(MultiplexUpgrade) \cap Supported(k.remote_offers)
            /\ k.remote_offers = MultiplexUpgrade => k.muxer = MultiplexUpgrade[1]
            /\ SameOrder(k.remote_offers) =>
                  k.muxer = IF MultiplexUpgrade[1] \in Supported(k.remote_offers)
                            THEN MultiplexUpgrade[1] ELSE MultiplexUpgrade[2]
            /\ k.peer = PeerIdOf(PublicKey(k.remote_payload.signed_by))
            /\ k.remote_peer = PeerIdOf(PublicKey(secret_key))
            /\ k.remote_peer = swarm.local_peer_id

\* C6 witness: an inbound and an outbound connection with instances of this
\* program have both completed.
C6_Witness ==
    /\ conns["A"].stage = "done" /\ conns["A"].role = "inbound"
    /\ conns["B"].stage = "done" /\ conns["B"].role = "outbound"
    /\ \A c \in Conns :
          /\ conns[c].remote_offers = MultiplexUpgrade
          /\ conns[c].remote_payload = AuthenticPayload(RemoteKey)
          /\ conns[c].muxer = "yamux"

\* main has returned the error of load_secret_key_from_file.
LoadFailed == ~cli.generate_secret /\ FailedAt("start")

\* C11: without --generate-secret, the load fails with the "No secret file
\* at <path>" error exactly when there is no file at the path, fails with the
\* decoding error when a file is there whose bytes are no secret key, and main
\* has a key only from a file that is there and holds a key.
C11_LoadErrorsTellMissingFromInvalid ==
    /\ LoadFailed =>
          /\ (exit.context = NoSecretFileAt) <=> ~secretFile.exists
          /\ secretFile.exists => exit.cause = "DecodingError"
    /\ (~cli.generate_secret /\ secret_key # NoKey) =>
          /\ secretFile.exists
          /\ Len(secretFile.bytes) = KeyLen
          /\ secret_key = secretFile.bytes
    /\ (~cli.generate_secret /\ pc # "start" /\ ~secretFile.exists) =>
          (pc = "exited" /\ (Failed => exit.context = NoSecretFileAt))

\* The websocket addresses among the listeners of the swarm.
WsListeners == {a \in {WebsocketAddress(NoTls), WebsocketAddress(TlsConfig)} :
                   InSeq(a, swarm.listeners)}

\* C12: while the loop runs, the TCP listener is bound; a websocket listener
\* is bound exactly when --listen-websocket was given; it is the wss one
\* exactly when a TLS configuration was made, and then the transport has that
\* configuration installed; otherwise it is the ws one.
C12_ListenerSet ==
    pc = "loop" =>
        /\ InSeq(TcpAddress, swarm.listeners)
        /\ (WsListeners # {}) <=> cli.listen_websocket
        /\ Len(swarm.listeners) = IF cli.listen_websocket THEN 2 ELSE 1
        /\ InSeq(WebsocketAddress(TlsConfig), swarm.listeners) <=> tls_config = TlsConfig
        /\ InSeq(WebsocketAddress(TlsConfig), swarm.listeners) =>
              swarm.transport.base.ws_tls
        /\ InSeq(WebsocketAddress(NoTls), swarm.listeners) =>
              (tls_config = NoTls /\ ~swarm.transport.base.ws_tls)

\* C12 witness: the loop runs with a secure websocket listener.
C12_Witness ==
    /\ pc = "loop"
    /\ swarm.listeners = <<TcpAddress, WebsocketAddress(TlsConfig)>>
    /\ WebsocketAddress(TlsConfig) # WebsocketAddress(NoTls)

\* The kinds of event the loop logs, with the message of each.
LoggedKinds ==
    [PeerRegistered |-> "Peer registered",
     PeerNotRegistered |-> "Peer failed to register",
     RegistrationExpired |-> "Registration expired",
     PeerUnregistered |-> "Peer unregistered",
     DiscoverServed |-> "Discovery served",
     NewListenAddr |-> "New listening address reported"]

\* C13: after matching an event of one of the six kinds the loop has written
\* exactly one entry, with the message of that kind; after any other event it
\* has written none; and an iteration of the loop changes nothing but the
\* event matched and the entries written.
C13_DispatchIsTotal ==
    /\ [](pc = "loop" /\ cur # NoEvent =>
            IF cur.kind \in DOMAIN LoggedKinds
            THEN Len(emitted) = 1 /\ emitted[1].msg = LoggedKinds[cur.kind]
                 /\ emitted[1].level = "info"
            ELSE emitted = <<>>)
    /\ [][(pc = "loop" /\ pc' = "loop") =>
            UNCHANGED <<cli, secretFile, secretFile0, parentDir, tlsFiles, reads,
                        secret_key, tls_config, swarm, exit, runs, generated, conns, probe, other>>]_vars

\* C13 witness: the loop has matched an event of the ping behaviour and has
\* written nothing.
C13_Witness ==
    /\ Matched("Ping")
    /\ emitted = <<>>

\* C14: when --ping was not given the ping behaviour is absent: on no
\* connection is a ping sent or answered or a ping timer armed, no ping event
\* waits for or reaches the loop, and the rendezvous behaviour is the only
\* one there.
C14_DisabledPingIsInert ==
    ~cli.ping =>
        /\ swarm.behaviour.rendezvous
        /\ ~swarm.behaviour.ping.enabled
        /\ \A c \in Conns :
              /\ probe[c].timer = "none"
              /\ probe[c].sent = 0
              /\ probe[c].answered = 0
              /\ ~probe[c].pending
        /\ cur.kind # "Ping"

\* C14 witness: without --ping, both connections have their handlers and the
\* remote of one has asked for the ping protocol, in vain.
C14_Witness ==
    /\ ~cli.ping
    /\ \A c \in Conns : probe[c].created
    /\ probe["A"].refused > 0

\* The errors of the upgrade protocols themselves.
ProtocolErrors == {"version", "noise", "closed", "multiplex"}

\* The upgrade of c ends in this step with an error of one of its protocols.
FailsInProtocol(c) ==
    /\ conns[c].stage # "failed"
    /\ conns'[c].stage = "failed"
    /\ conns'[c].error \in ProtocolErrors

\* C15: when the upgrade of a connection fails in version negotiation, in
\* the handshake (a payload that does not verify, or the remote closing) or
\* for want of a common multiplexer, only that attempt ends: every other
\* connection keeps its state, the swarm is as it was and main is still in
\* its loop, where the failure is the next thing it can dispatch.
C15_ProtocolFailureIsLocal ==
    /\ [][\A c \in Conns : FailsInProtocol(c) =>
            /\ \A d \in Conns \ {c} : conns'[d] = conns[d]
            /\ swarm' = swarm
            /\ pc = "loop" /\ pc' = "loop" /\ exit' = Running]_vars
    /\ [](\A c \in Conns : conns[c].stage = "failed" =>
            /\ pc = "loop"
            /\ ENABLED DispatchConnectionEvent(c))

\* C15 witness: the handshake of A failed on a payload that does not verify,
\* that of B went well and B is at its multiplexer.
C15_Witness ==
    /\ conns["A"].stage = "failed"
    /\ conns["A"].error = "noise"
    /\ ~Verifies(conns["A"].remote_payload)
    /\ conns["B"].stage = "multiplex"
    /\ conns["B"].peer # NoPeer

\* The stages in which the timer of a connection runs.
UnderWay == {"dialing", "websocket", "version", "noise", "multiplex"}

\* The raw connection of c is established in this step.
RawEstablished(c) ==
    /\ conns[c].stage \in {"idle", "dialing"}
    /\ conns'[c].stage \in {"websocket", "version"}

\* The errors with which each stage can end by itself.
OwnErrors ==
    [dialing |-> {"connect"}, websocket |-> {"websocket"}, version |-> {"version"},
     noise |-> {"noise", "closed"}, multiplex |-> {"multiplex"}]

StageOrder ==
    {<<"idle", "version">>, <<"idle", "dialing">>, <<"dialing", "version">>,
     <<"idle", "websocket">>, <<"websocket", "version">>, <<"websocket", "failed">>,
     <<"version", "noise">>, <<"noise", "multiplex">>, <<"multiplex", "done">>,
     <<"dialing", "failed">>, <<"version", "failed">>, <<"noise", "failed">>,
     <<"multiplex", "failed">>, <<"failed", "idle">>}

\* C17: for a connection of either direction the stages come in the order
\* version negotiation, authentication, multiplexing, none skipped; before
\* the handshake has succeeded the connection has no peer id and no
\* multiplexer; from then on its peer id is the one of the key whose payload
\* was verified; and the pair of peer id and multiplexed stream reaches the
\* swarm only from a connection that went through all three.
C17_StagesInOrder ==
    /\ [](swarm.transport.upgrade = <<"version_v1", "noise_xx", "multiplex">>)
    /\ [][\A c \in Conns : conns'[c].stage # conns[c].stage =>
            <<conns[c].stage, conns'[c].stage>> \in StageOrder]_vars
    /\ [](\A c \in Conns :
            LET k == conns[c] IN
            /\ k.stage \in {"idle", "dialing", "websocket", "version", "noise"} =>
                  (k.peer = NoPeer /\ k.muxer = "none")
            /\ k.stage \in {"multiplex", "done"} =>
                  /\ Verifies(k.remote_payload)
                  /\ k.peer = PeerIdOf(PublicKey(k.remote_payload.signed_by))
                  /\ k.peer # NoPeer
            /\ k.stage = "multiplex" => k.muxer = "none"
            /\ k.stage = "done" => k.muxer \in Supported(MultiplexUpgrade)
            /\ k.reported => k.stage = "done"
            /\ k.stage # "idle" => k.role \in {"inbound", "outbound"})

\* C17 witness: an outbound connection has gone through the three stages and
\* reached the swarm, while an inbound one is at its handshake, without a
\* peer id.
C17_Witness ==
    /\ conns["A"].role = "outbound"
    /\ conns["A"].stage = "done"
    /\ conns["A"].reported
    /\ conns["A"].peer = PeerIdOf(PublicKey(RemoteKey))
    /\ conns["B"].role = "inbound"
    /\ conns["B"].stage = "noise"
    /\ conns["B"].peer = NoPeer

\* The layers of the transport.
Alternatives ==
    {swarm.transport.base.alternatives[i] :
        i \in DOMAIN swarm.transport.base.alternatives}

\* The stages of a connection that a layer has handed to the upgrade.
Upgrading == {"version", "noise", "multiplex", "done"}

\* C18 as stated: with the websocket layer enabled, the layer that carries
\* an incoming connection is chosen by what the remote turns out to speak,
\* not beforehand.
C18_LayerChosenBySniffing ==
    \A c \in Conns :
        (cli.listen_websocket /\ conns[c].role = "inbound"
         /\ conns[c].stage \in {"websocket", "version"}) =>
            conns[c].via = IF conns[c].speaks = "ws" THEN "ws" ELSE "tcp"

\* C18, amended: with --listen-websocket the transport has the raw and the
\* websocket layer as alternatives, without it the raw layer only.  The
\* layer of an incoming connection is that of the listener it arrives on,
\* whatever the remote speaks, and the layer of a dial is one of the
\* alternatives; a remote that does not speak the protocol of the layer gets
\* no further than the first stage.  Under either layer the connection then
\* goes through the same stages in the same order, to the same outcome.
C18_LayerChosenByAddress ==
    /\ [](/\ swarm.transport.base.alternatives =
                IF cli.listen_websocket THEN <<"tcp", "ws">> ELSE <<"tcp">>
          /\ {Layer(swarm.listeners[i]) : i \in DOMAIN swarm.listeners} = Alternatives
          /\ \A c \in Conns :
                LET k == conns[c] IN
                /\ k.role # "none" => k.via \in Alternatives
                /\ ~cli.listen_websocket => k.via \in {"none", "tcp"}
                /\ k.stage \in {"noise", "multiplex", "done"} =>
                      k.speaks = Spoken(k.via)
                /\ k.stage = "websocket" => k.via = "ws"
                /\ k.stage = "done" =>
                      /\ k.peer = PeerIdOf(PublicKey(k.remote_payload.signed_by))
                      /\ k.muxer \in Supported(MultiplexUpgrade))
    /\ [][\A c \in Conns :
            /\ (conns[c].stage = "idle" /\ conns'[c].role = "inbound") =>
                  /\ \E i \in DOMAIN swarm.listeners :
                        conns'[c].via = Layer(swarm.listeners[i])
                  /\ conns'[c].elapsed = 0
                  /\ conns'[c].stage =
                        IF conns'[c].via = "ws" THEN "websocket" ELSE "version"
            /\ (conns[c].stage # "idle" /\ conns'[c].stage # "idle") =>
                  conns'[c].via = conns[c].via
            /\ (conns[c].stage \in Upgrading
                /\ conns'[c].stage # conns[c].stage) =>
                  <<conns[c].stage, conns'[c].stage>> \in
                      {<<"version", "noise">>, <<"noise", "multiplex">>,
                       <<"multiplex", "done">>, <<"version", "failed">>,
                       <<"noise", "failed">>, <<"multiplex", "failed">>}]_vars

\* C18 witness: the node has both listeners; a connection that arrived on
\* the websocket one and a connection that arrived on the raw one have both
\* completed their upgrades.
C18_Witness ==
    /\ cli.listen_websocket
    /\ conns["A"].role = "inbound" /\ conns["A"].via = "ws"
    /\ conns["A"].stage = "done"
    /\ conns["B"].role = "inbound" /\ conns["B"].via = "tcp"
    /\ conns["B"].stage = "done"

\* The steps of main after the key.
LaterSteps == {"tls", "create_swarm", "listen_tcp", "listen_ws"}

\* A run with --generate-secret has made the secret file and failed later.
FailedAfterGenerating ==
    /\ cli.generate_secret
    /\ Failed
    /\ exit.at \in LaterSteps

\* C19: start-up does not undo the key file.  A run with --generate-secret
\* is past the key only with the file of its key on disk; when it then fails
\* at a later step the file stays, and stays over the restart; and the same
\* command line run again finds the file, fails at the exclusive open with
\* the "Could not generate secret file" error and never reaches the loop.
C19_FailedStartupLeavesKeyFile ==
    /\ []((cli.generate_secret /\ pc \in AfterKey) =>
            (secretFile = File(AsRef(secret_key)) /\ generated = secret_key))
    /\ [](FailedAfterGenerating =>
            (~secretFile0.exists /\ secretFile = File(AsRef(generated))))
    /\ [][(FailedAfterGenerating /\ pc' = "start") =>
            (secretFile' = secretFile /\ secretFile0' = secretFile)]_vars
    /\ []((runs > 1 /\ cli.generate_secret /\ secretFile0.exists) =>
            /\ pc \notin AfterKey
            /\ secretFile = secretFile0
            /\ Failed =>
                  exit = [Err(CouldNotGenerate, "AlreadyExists") EXCEPT !.at = "open"])

\* C19 witness: with one TLS path only, which no run gets past, an earlier
\* run has generated the key file, and this run with --generate-secret has
\* failed on finding it.
C19_Witness ==
    /\ runs = 2
    /\ cli.generate_secret
    /\ ExactlyOneTlsPath
    /\ generated # NoKey
    /\ secretFile = File(AsRef(generated))
    /\ secretFile0 = secretFile
    /\ FailedAt("open")
    /\ exit.context = CouldNotGenerate
    /\ exit.cause = "AlreadyExists"

\* A process has created the file: its open has succeeded.
MainCreated == pc \in {"write", "tls"} \/ (pc = "exited" /\ exit.at = "write")
OtherCreated ==
    other.pc \in {"write", "done"} \/ (other.pc = "exited" /\ other.exit.at = "write")

\* A process has ended with the error of the exclusive open on a file that
\* is there.
KeyFileExists(e) == e = [Err(CouldNotGenerate, "AlreadyExists") EXCEPT !.at = "open"]

\* A process has ended with an error of the file system other than that.
Fault(e) == e.status = "error" /\ ~KeyFileExists(e)

IsPrefix(a, b) == Len(a) <= Len(b) /\ a = SubSeq(b, 1, Len(a))

\* Both processes are through with the key file.
BothThrough == pc \in {"tls", "exited"} /\ other.pc \in {"done", "exited"}

\* C20: of two processes generating onto the same path, where no file is, at
\* most one creates the file, and the file is there exactly when one has.  A
\* process that comes to its open when the file is there ends with the
\* "Could not generate secret file" error of AlreadyExists.  The bytes in
\* the file are at all times the first bytes of the key of the process that
\* created it, and all of them once its write has returned.  When both are
\* through and neither met another error of the file system, exactly one
\* has written, the other has ended with that error, and the file holds the
\* key of the one that has written.
C20_ExclusiveCreateSerialises ==
    /\ [](/\ ~(MainCreated /\ OtherCreated)
          /\ secretFile.exists <=> (MainCreated \/ OtherCreated)
          /\ MainCreated => IsPrefix(secretFile.bytes, AsRef(secret_key))
          /\ OtherCreated => IsPrefix(secretFile.bytes, AsRef(other.secret_key))
          /\ pc = "tls" => secretFile = File(AsRef(secret_key))
          /\ other.pc = "done" => secretFile = File(AsRef(other.secret_key))
          /\ (BothThrough /\ ~Fault(exit) /\ ~Fault(other.exit)) =>
                \/ pc = "tls" /\ KeyFileExists(other.exit)
                \/ other.pc = "done" /\ KeyFileExists(exit))
    /\ [][/\ (pc = "open" /\ pc' # "open" /\ secretFile.exists) => KeyFileExists(exit')
          /\ (other.pc = "open" /\ other'.pc # "open" /\ secretFile.exists) =>
                KeyFileExists(other'.exit)]_vars

\* C20 witness: this process has created and written the file; the other,
\* which had generated a different key, has ended with the error of its open;
\* the file holds this one's key.
C20_Witness ==
    /\ pc = "tls"
    /\ KeyFileExists(other.exit)
    /\ other.secret_key # NoKey
    /\ other.secret_key # secret_key
    /\ secretFile = File(AsRef(secret_key))

====
